---------------------------- MODULE Spec2Model ----------------------------
(***************************************************************************)
(* A model of the surrogate-id and list-normalisation statements of        *)
(* superset/helpers/database/dbhelper.py and of the upload handler         *)
(* CsvToDatabaseView.form_post (superset/views/database/views.py) that     *)
(* executes them.                                                          *)
(*                                                                         *)
(* SQL strings are sequences of one-character strings.  A nullable SQL     *)
(* value is a record [null, val]; val is meaningless when null is TRUE.    *)
(***************************************************************************)
EXTENDS Integers, Sequences, FiniteSets, TLC

VARIABLES
    fn,      \* the helper functions called on their own: arguments and results
    db,      \* the target database: its schema objects and their rows
    up,      \* CsvToDatabaseView.form_post: its position, arguments and outcome
    ins,     \* per client connection: the position of its INSERT statement
    block,   \* whether views.py lines 345-354 (commented out) are executed
    stats    \* stats_logger counters

vars == <<fn, db, up, ins, block, stats>>

(***************************************************************************)
(* SQL values                                                              *)
(***************************************************************************)
NULL == [null |-> TRUE, val |-> <<>>]

Str(s) == [null |-> FALSE, val |-> s]

Num(n) == [null |-> FALSE, val |-> n]

(***************************************************************************)
(* SQL built-ins used by the generated functions (MySQL semantics)         *)
(***************************************************************************)
LENGTH(str) == Len(str)

RECURSIVE REVERSE(_)
REVERSE(str) ==
    IF str = <<>> THEN <<>> ELSE Append(REVERSE(Tail(str)), Head(str))

\* REPLACE(str, from_str, to_str): every occurrence of from_str, found left
\* to right without overlap, is replaced by to_str.
RECURSIVE REPLACE(_, _, _)
REPLACE(str, from_str, to_str) ==
    IF Len(from_str) = 0 \/ Len(str) < Len(from_str) THEN str
    ELSE IF SubSeq(str, 1, Len(from_str)) = from_str
         THEN to_str \o REPLACE(SubSeq(str, Len(from_str) + 1, Len(str)), from_str, to_str)
         ELSE <<Head(str)>> \o REPLACE(Tail(str), from_str, to_str)

\* The smallest 0-based offset >= off at which delim starts in str, or -1.
RECURSIVE StrStr(_, _, _)
StrStr(str, delim, off) ==
    IF off + Len(delim) > Len(str) THEN -1
    ELSE IF SubSeq(str, off + 1, off + Len(delim)) = delim THEN off
         ELSE StrStr(str, delim, off + 1)

RECURSIVE SubstringIndexScan(_, _, _, _)
SubstringIndexScan(str, delim, count, off) ==
    LET p == StrStr(str, delim, off) IN
    IF p < 0 THEN str
    ELSE IF count = 1 THEN SubSeq(str, 1, p)
         ELSE SubstringIndexScan(str, delim, count - 1, p + Len(delim))

\* SUBSTRING_INDEX(str, delim, count), count >= 0: the part of str left of
\* the count-th occurrence of delim; all of str when there are fewer.
SUBSTRING_INDEX(str, delim, count) ==
    IF count <= 0 \/ Len(delim) = 0 THEN <<>>
    ELSE SubstringIndexScan(str, delim, count, 0)

(***************************************************************************)
(* The generated helper functions                                          *)
(***************************************************************************)
\* A variant that counts the delimiters only, not the tokens.
get_delimiter_count_without_one(f_string, f_delimiter) ==
    IF f_string.null THEN NULL
    ELSE Num(LENGTH(f_string.val) - LENGTH(REPLACE(f_string.val, f_delimiter, <<>>)))

\* func_<table>_get_delimiter_count
get_delimiter_count(f_string, f_delimiter) ==
    IF f_string.null THEN NULL
    ELSE Num(1 + (LENGTH(f_string.val) - LENGTH(REPLACE(f_string.val, f_delimiter, <<>>))))

\* A variant that keeps the whole prefix up to the f_order-th delimiter.
split_by_delimiter_prefix_only(f_string, f_delimiter, f_order) ==
    IF f_string.null THEN NULL
    ELSE Str(SUBSTRING_INDEX(f_string.val, f_delimiter, f_order))

\* func_<table>_split_by_delimiter
split_by_delimiter(f_string, f_delimiter, f_order) ==
    IF f_string.null THEN NULL
    ELSE Str(REVERSE(SUBSTRING_INDEX(REVERSE(SUBSTRING_INDEX(f_string.val, f_delimiter, f_order)),
                                     f_delimiter, 1)))

\* The WHILE loop of insert_split_result_<k>_t, from i: one child row per
\* iteration.  tbl is the child table.
RECURSIVE insert_split_result_loop(_, _, _, _, _, _)
insert_split_result_loop(tbl, f_string, f_delimiter, f_old_id, counter, i) ==
    IF counter.null \/ ~(i < counter.val) THEN tbl
    ELSE insert_split_result_loop(
             [tbl EXCEPT !.rows = Append(@, [id |-> tbl.auto, id_eklaim |-> f_old_id,
                                             kode |-> split_by_delimiter(f_string, f_delimiter, i + 1)]),
                         !.auto = @ + 1],
             f_string, f_delimiter, f_old_id, counter, i + 1)

\* CALL insert_split_result_<k>_t(f_string, f_delimiter, f_old_id)
insert_split_result(tbl, f_string, f_delimiter, f_old_id) ==
    insert_split_result_loop(tbl, f_string, f_delimiter, f_old_id,
                             get_delimiter_count(f_string, f_delimiter), 0)

(***************************************************************************)
(* Reference notions the properties are stated with (not code)             *)
(***************************************************************************)
\* The number of occurrences of d in s, counted left to right without overlap.
RECURSIVE Occurrences(_, _)
Occurrences(s, d) ==
    IF Len(s) < Len(d) THEN 0
    ELSE IF SubSeq(s, 1, Len(d)) = d
         THEN 1 + Occurrences(SubSeq(s, Len(d) + 1, Len(s)), d)
         ELSE Occurrences(Tail(s), d)

\* The tokens of s separated by d, left to right.
RECURSIVE Tokens(_, _)
Tokens(s, d) ==
    LET p == StrStr(s, d, 0) IN
    IF p < 0 THEN <<s>>
    ELSE <<SubSeq(s, 1, p)>> \o Tokens(SubSeq(s, p + Len(d) + 1, Len(s)), d)

\* The strings of toks joined by d.
RECURSIVE Join(_, _)
Join(toks, d) ==
    IF toks = <<>> THEN <<>>
    ELSE IF Len(toks) = 1 THEN toks[1]
         ELSE toks[1] \o d \o Join(Tail(toks), d)

(***************************************************************************)
(* The database                                                            *)
(***************************************************************************)
\* The tables of the target database.
Tables == {"t1", "t2"}

\* The table the uploads and INSERTs of most runs are for.
OneTable == {"t1"}

ListKinds == {"diaglist", "proclist"}

\* The parent column a list kind is split from (NEW.DIAGLIST, NEW.PROCLIST).
ListColumn(k, row) == IF k = "diaglist" THEN row.DIAGLIST ELSE row.PROCLIST

AfterInsertName(k) ==
    IF k = "diaglist" THEN "after_insert_diaglist" ELSE "after_insert_proclist"

Trigger(name, t, timing, purpose) ==
    [name |-> <<name, t>>, tbl |-> t, timing |-> timing, purpose |-> purpose]

EmptyDb ==
    [seq    |-> [exists |-> FALSE, next |-> 1],
     tab    |-> [t \in Tables |->
                   [exists |-> FALSE, hasId |-> FALSE, fileId |-> FALSE, rows |-> <<>>,
                    nextRid |-> 1]],
     shadow |-> [t \in Tables |-> [exists |-> FALSE, rows |-> {}, auto |-> 1]],
     child  |-> [k \in ListKinds |->
                   [t \in Tables |-> [exists |-> FALSE, rows |-> <<>>, auto |-> 1]]],
     trig   |-> {},
     func   |-> {},
     proc   |-> {},
     \* history: the ids the get_id trigger has assigned, in order, and
     \* whether the whole plan has been applied to the table as it is now
     idlog   |-> [t \in Tables |-> <<>>],
     applied |-> [t \in Tables |-> FALSE]]

\* The result of executing one statement: the database after it, and whether
\* the engine raised an error.
Ok(d) == [db |-> d, err |-> FALSE]

Err(d) == [db |-> d, err |-> TRUE]

HasTrigger(d, name, t) == \E g \in d.trig : g.name = <<name, t>>

\* DROP TRIGGER IF EXISTS <name>_<t>
DropTriggerIfExists(d, name, t) ==
    [d EXCEPT !.trig = {g \in @ : g.name # <<name, t>>}]

\* CREATE TRIGGER: the table must exist, with the NEW columns the body names;
\* a trigger of that name must not exist.
CreateTrigger(d, g, needsId) ==
    IF \/ ~d.tab[g.tbl].exists
       \/ (needsId /\ ~d.tab[g.tbl].hasId)
       \/ \E o \in d.trig : o.name = g.name
    THEN Err(d)
    ELSE Ok([d EXCEPT !.trig = @ \cup {g}])

\* The schema: which objects exist, without their rows and counters.
Schema(d) ==
    [seq    |-> d.seq.exists,
     tab    |-> [t \in Tables |-> <<d.tab[t].exists, d.tab[t].hasId, d.tab[t].fileId>>],
     shadow |-> [t \in Tables |-> d.shadow[t].exists],
     child  |-> [k \in ListKinds |-> [t \in Tables |-> d.child[k][t].exists]],
     trig   |-> d.trig,
     func   |-> d.func,
     proc   |-> d.proc]

(***************************************************************************)
(* The statements of dbhelper.py, by their effect when executed            *)
(***************************************************************************)
\* CREATE SEQUENCE IF NOT EXISTS eklaim_sequences
create_sequence(d) == Ok([d EXCEPT !.seq.exists = TRUE])

\* The rows with the ids first, first + 1, ... in the id column.
AssignIds(rows, first) == [n \in 1..Len(rows) |-> [rows[n] EXCEPT !.id = first + n - 1]]

\* A variant without IF NOT EXISTS.
add_id_on_table_unguarded(d, t) ==
    IF ~d.tab[t].exists \/ ~d.seq.exists \/ d.tab[t].hasId THEN Err(d)
    ELSE Ok([d EXCEPT !.tab[t].hasId = TRUE,
                      !.tab[t].rows = AssignIds(@, d.seq.next),
                      !.seq.next = @ + Len(d.tab[t].rows)])

\* A variant that redefines a column named id it finds.
add_id_on_table_redefining(d, t) ==
    IF ~d.tab[t].exists \/ ~d.seq.exists THEN Err(d)
    ELSE IF d.tab[t].hasId /\ ~d.tab[t].fileId THEN Ok(d)
    ELSE Ok([d EXCEPT !.tab[t].hasId = TRUE,
                      !.tab[t].fileId = FALSE,
                      !.tab[t].rows = AssignIds(@, d.seq.next),
                      !.seq.next = @ + Len(d.tab[t].rows)])

\* ALTER TABLE t ADD COLUMN IF NOT EXISTS id INT NOT NULL PRIMARY KEY
\*     DEFAULT nextval('eklaim_sequences'): rows already there take the
\* next values of the sequence.
add_id_on_table(d, t) ==
    IF ~d.tab[t].exists THEN Err(d)
    ELSE IF d.tab[t].hasId THEN Ok(d)
    ELSE IF ~d.seq.exists THEN Err(d)
    ELSE Ok([d EXCEPT !.tab[t].hasId = TRUE,
                      !.tab[t].rows = AssignIds(@, d.seq.next),
                      !.seq.next = @ + Len(d.tab[t].rows)])

\* CREATE TABLE IF NOT EXISTS sequence_id_t (id INT AUTO_INCREMENT PRIMARY KEY)
create_sequence_table(d, t) == Ok([d EXCEPT !.shadow[t].exists = TRUE])

\* A variant that keeps the trigger it finds and creates the new one under a
\* second name.
create_before_insert_trigger_table_second_name(d, t) ==
    IF HasTrigger(d, "get_id", t)
    THEN CreateTrigger(DropTriggerIfExists(d, "get_id_2", t),
                       Trigger("get_id_2", t, "BEFORE INSERT", "get_id"), TRUE)
    ELSE CreateTrigger(d, Trigger("get_id", t, "BEFORE INSERT", "get_id"), TRUE)

\* DROP TRIGGER IF EXISTS get_id_t; CREATE TRIGGER get_id_t BEFORE INSERT ON t
create_before_insert_trigger_table(d, t) ==
    CreateTrigger(DropTriggerIfExists(d, "get_id", t),
                  Trigger("get_id", t, "BEFORE INSERT", "get_id"), TRUE)

\* DROP TRIGGER IF EXISTS remove_id_t; CREATE TRIGGER remove_id_t AFTER INSERT ON t
create_after_insert_trigger_table(d, t) ==
    CreateTrigger(DropTriggerIfExists(d, "remove_id", t),
                  Trigger("remove_id", t, "AFTER INSERT", "remove_id"), FALSE)

\* A variant that drops the child table it finds and creates it again.
create_list_table_recreating(d, k, t) ==
    Ok([d EXCEPT !.child[k][t].exists = TRUE, !.child[k][t].rows = <<>>])

\* CREATE TABLE IF NOT EXISTS diaglist_t / proclist_t
create_list_table(d, k, t) == Ok([d EXCEPT !.child[k][t].exists = TRUE])

create_diaglist_table(d, t) == create_list_table(d, "diaglist", t)

create_proclist_table(d, t) == create_list_table(d, "proclist", t)

\* DROP FUNCTION IF EXISTS func_t_get_delimiter_count; CREATE FUNCTION ...
create_function_get_delimiter_count(d, t) ==
    Ok([d EXCEPT !.func = @ \cup {<<"get_delimiter_count", t>>}])

\* DROP FUNCTION IF EXISTS func_t_split_by_delimiter; CREATE FUNCTION ...
create_function_split_by_delimiter(d, t) ==
    Ok([d EXCEPT !.func = @ \cup {<<"split_by_delimiter", t>>}])

\* DROP PROCEDURE IF EXISTS insert_split_result_<k>_t; CREATE PROCEDURE ...
create_procedure_insert_list(d, k, t) ==
    Ok([d EXCEPT !.proc = @ \cup {<<k, t>>}])

create_procedure_insert_diaglist(d, t) == create_procedure_insert_list(d, "diaglist", t)

create_procedure_insert_proclist(d, t) == create_procedure_insert_list(d, "proclist", t)

\* A variant that also runs the procedure for the rows already in t.
RECURSIVE Backfill(_, _, _, _)
Backfill(tbl, k, rows, n) ==
    IF n > Len(rows) THEN tbl
    ELSE Backfill(insert_split_result(tbl, ListColumn(k, rows[n]), <<";">>, rows[n].id), k, rows, n + 1)

create_trigger_after_insert_list_backfill(d, k, t) ==
    LET r == CreateTrigger(DropTriggerIfExists(d, AfterInsertName(k), t),
                           Trigger(AfterInsertName(k), t, "AFTER INSERT", k), TRUE)
    IN IF ~r.err /\ d.child[k][t].exists
       THEN Ok([r.db EXCEPT !.child[k][t] = Backfill(@, k, d.tab[t].rows, 1)])
       ELSE r

\* DROP TRIGGER IF EXISTS after_insert_<k>_t; CREATE TRIGGER after_insert_<k>_t
\* AFTER INSERT ON t: the body names NEW.<list column> and NEW.id.
create_trigger_after_insert_list(d, k, t) ==
    CreateTrigger(DropTriggerIfExists(d, AfterInsertName(k), t),
                  Trigger(AfterInsertName(k), t, "AFTER INSERT", k), TRUE)

create_trigger_after_insert_diaglist(d, t) == create_trigger_after_insert_list(d, "diaglist", t)

create_trigger_after_insert_proclist(d, t) == create_trigger_after_insert_list(d, "proclist", t)

(***************************************************************************)
(* One INSERT INTO t statement of a connection, trigger by trigger.        *)
(* c is the connection: pc its position, new the NEW row, lid the value    *)
(* LAST_INSERT_ID() returns on this connection; own, removed, rid and      *)
(* added remember what the statement has done so far.                      *)
(***************************************************************************)
NoRow == [rid |-> 0, id |-> 0, DIAGLIST |-> NULL, PROCLIST |-> NULL, norm |-> {}]

IdleConn ==
    [pc |-> "idle", t |-> CHOOSE t \in Tables : TRUE, new |-> NoRow, lid |-> 0,
     own |-> 0, removed |-> 0, added |-> [k \in ListKinds |-> {}], n |-> 0]

StartInsert(c, t, vals) ==
    [c EXCEPT !.pc = "default", !.t = t,
              !.new = [NoRow EXCEPT !.DIAGLIST = vals.DIAGLIST, !.PROCLIST = vals.PROCLIST,
                                    !.id = IF "id" \in DOMAIN vals THEN vals.id ELSE 0],
              !.own = 0, !.removed = 0, !.added = [k \in ListKinds |-> {}]]

Min(S) == CHOOSE x \in S : \A y \in S : x <= y

Max(S) == CHOOSE x \in S : \A y \in S : x >= y

\* The AFTER INSERT triggers of a table fire in the order the plan creates them.
AfterChain == <<"remove_id", "after_insert_diaglist", "after_insert_proclist">>

RECURSIVE NextAfter(_, _, _)
NextAfter(d, t, n) ==
    IF n > Len(AfterChain) THEN "done"
    ELSE IF HasTrigger(d, AfterChain[n], t) THEN AfterChain[n]
         ELSE NextAfter(d, t, n + 1)

\* The statement fails: what it changed is undone (its own parent row, child
\* rows and shadow row); sequence and AUTO_INCREMENT counters are not.
FailInsert(d, c) ==
    LET NotOwnRow(r) == r.rid # c.new.rid
        NotOwnChild(k) == LET Keep(r) == r.id \notin c.added[k] IN
                          [t \in Tables |->
                              IF t = c.t
                              THEN [d.child[k][t] EXCEPT !.rows = SelectSeq(@, Keep)]
                              ELSE d.child[k][t]]
    IN [db |-> [d EXCEPT !.tab[c.t].rows = IF c.new.rid = 0 THEN @ ELSE SelectSeq(@, NotOwnRow),
                         !.shadow[c.t].rows = (@ \ {c.own}) \cup
                                              (IF c.removed \in {0, c.own} THEN {} ELSE {c.removed}),
                         !.child = [k \in ListKinds |-> NotOwnChild(k)]],
        c  |-> [c EXCEPT !.pc = "failed"]]

\* The column default: NEW.id = nextval('eklaim_sequences') when t has the
\* id column.
StepDefault(d, c) ==
    IF ~d.tab[c.t].exists THEN FailInsert(d, c)
    ELSE LET c1 == [c EXCEPT !.pc = IF HasTrigger(d, "get_id", c.t) THEN "get_id_insert" ELSE "row"]
         IN IF d.tab[c.t].hasId /\ ~d.tab[c.t].fileId /\ c.new.id = 0
            THEN [db |-> [d EXCEPT !.seq.next = @ + 1], c |-> [c1 EXCEPT !.new.id = d.seq.next]]
            ELSE [db |-> d, c |-> c1]

\* get_id_t: INSERT INTO sequence_id_t VALUES (NULL)
StepGetIdInsert(d, c) ==
    IF ~d.shadow[c.t].exists THEN FailInsert(d, c)
    ELSE [db |-> [d EXCEPT !.shadow[c.t].rows = @ \cup {d.shadow[c.t].auto},
                           !.shadow[c.t].auto = @ + 1],
          c  |-> [c EXCEPT !.pc = "get_id_set", !.lid = d.shadow[c.t].auto,
                           !.own = d.shadow[c.t].auto]]

\* A variant that reads the largest id of the shadow table instead of the
\* connection's own last insert id.
LAST_INSERT_ID_as_max(d, c) ==
    IF d.shadow[c.t].rows = {} THEN 0 ELSE Max(d.shadow[c.t].rows)

\* LAST_INSERT_ID(): the value the connection's own last insert generated.
LAST_INSERT_ID(d, c) == c.lid

\* get_id_t: SET NEW.id = LAST_INSERT_ID()
StepGetIdSet(d, c) ==
    LET v == LAST_INSERT_ID(d, c) IN
    [db |-> [d EXCEPT !.idlog[c.t] = Append(@, v)],
     c  |-> [c EXCEPT !.pc = "row", !.new.id = v]]

\* The row goes into the table unless its id is already there (PRIMARY KEY).
StepRow(d, c) ==
    IF ~d.tab[c.t].exists THEN FailInsert(d, c)
    ELSE IF /\ d.tab[c.t].hasId /\ ~d.tab[c.t].fileId
            /\ \E n \in 1..Len(d.tab[c.t].rows) : d.tab[c.t].rows[n].id = c.new.id
    THEN FailInsert(d, c)
    ELSE LET rid == d.tab[c.t].nextRid
             row == [c.new EXCEPT !.rid = rid,
                                  !.id = IF d.tab[c.t].hasId THEN @ ELSE 0,
                                  !.norm = {k \in ListKinds : HasTrigger(d, AfterInsertName(k), c.t)}]
         IN [db |-> [d EXCEPT !.tab[c.t].rows = Append(@, row), !.tab[c.t].nextRid = @ + 1],
             c  |-> [c EXCEPT !.new = row, !.pc = NextAfter(d, c.t, 1)]]

\* remove_id_t: DELETE FROM sequence_id_t WHERE id =
\*     (SELECT * FROM sequence_id_t ORDER BY id ASC LIMIT 1)
StepRemoveId(d, c) ==
    IF ~d.shadow[c.t].exists THEN FailInsert(d, c)
    ELSE IF d.shadow[c.t].rows = {}
    THEN [db |-> d, c |-> [c EXCEPT !.pc = NextAfter(d, c.t, 2)]]
    ELSE LET oldest == Min(d.shadow[c.t].rows) IN
         [db |-> [d EXCEPT !.shadow[c.t].rows = @ \ {oldest}],
          c  |-> [c EXCEPT !.pc = NextAfter(d, c.t, 2), !.removed = oldest]]

\* after_insert_<k>_t: CALL insert_split_result_<k>_t(NEW.<list>, ';', NEW.id)
StepAfterInsertList(d, c, k) ==
    LET counter == get_delimiter_count(ListColumn(k, c.new), <<";">>)
        runs    == ~counter.null /\ counter.val > 0
        next    == NextAfter(d, c.t, IF k = "diaglist" THEN 3 ELSE 4)
    IN IF \/ <<k, c.t>> \notin d.proc
          \/ <<"get_delimiter_count", c.t>> \notin d.func
          \/ (runs /\ (<<"split_by_delimiter", c.t>> \notin d.func \/ ~d.child[k][c.t].exists))
       THEN FailInsert(d, c)
       ELSE LET tbl == insert_split_result(d.child[k][c.t], ListColumn(k, c.new), <<";">>, c.new.id)
            IN [db |-> [d EXCEPT !.child[k][c.t] = tbl],
                c  |-> [c EXCEPT !.pc = next,
                                 !.added[k] = d.child[k][c.t].auto .. (tbl.auto - 1)]]

Step(d, c) ==
    CASE c.pc = "default"               -> StepDefault(d, c)
      [] c.pc = "get_id_insert"         -> StepGetIdInsert(d, c)
      [] c.pc = "get_id_set"            -> StepGetIdSet(d, c)
      [] c.pc = "row"                   -> StepRow(d, c)
      [] c.pc = "remove_id"             -> StepRemoveId(d, c)
      [] c.pc = "after_insert_diaglist" -> StepAfterInsertList(d, c, "diaglist")
      [] c.pc = "after_insert_proclist" -> StepAfterInsertList(d, c, "proclist")
      [] OTHER                          -> [db |-> d, c |-> c]

\* The statement run to its end without another connection in between.
RECURSIVE RunInsert(_, _)
RunInsert(d, c) ==
    IF c.pc \in {"done", "failed", "idle"} THEN [db |-> d, c |-> c]
    ELSE LET r == Step(d, c) IN RunInsert(r.db, r.c)

(***************************************************************************)
(* df.to_sql(name = t, if_exists = ...), as db_engine_spec.df_to_sql calls *)
(* it: create the table from the data frame's columns, then insert its     *)
(* rows in one statement.                                                  *)
(***************************************************************************)
\* DROP TABLE t: its rows and its triggers go with it.
DropTable(d, t) ==
    [d EXCEPT !.tab[t] = [@ EXCEPT !.exists = FALSE, !.hasId = FALSE, !.fileId = FALSE,
                                  !.rows = <<>>],
              !.trig = {g \in @ : g.tbl # t},
              !.applied[t] = FALSE]

\* CREATE TABLE t with the data frame's columns: a column named id of the
\* file is a column of the file's type, without default and key.
CreateTable(d, t, df) ==
    [d EXCEPT !.tab[t].exists = TRUE,
              !.tab[t].hasId = "id" \in df.columns,
              !.tab[t].fileId = "id" \in df.columns]

RECURSIVE InsertRows(_, _, _, _)
InsertRows(d, c, t, rows) ==
    IF rows = <<>> THEN Ok(d)
    ELSE LET r == RunInsert(d, StartInsert(c, t, Head(rows))) IN
         IF r.c.pc = "failed" THEN Err(r.db)
         ELSE InsertRows(r.db, r.c, t, Tail(rows))

\* The INSERT of all rows fails as a whole: the rows it put into the parent,
\* child and shadow tables are undone, the counters are not.
UndoRows(before, after) ==
    [after EXCEPT !.tab = [t \in Tables |-> [@[t] EXCEPT !.rows = before.tab[t].rows]],
                  !.shadow = [t \in Tables |-> [@[t] EXCEPT !.rows = before.shadow[t].rows]],
                  !.child = [k \in ListKinds |-> [t \in Tables |->
                                [@[k][t] EXCEPT !.rows = before.child[k][t].rows]]]]

df_to_sql(d, t, df, if_exists) ==
    IF d.tab[t].exists /\ if_exists = "fail" THEN Err(d)
    ELSE LET d1 == IF ~d.tab[t].exists THEN CreateTable(d, t, df)
                   ELSE IF if_exists = "replace" THEN CreateTable(DropTable(d, t), t, df)
                   ELSE d
             r  == InsertRows(d1, IdleConn, t, df.rows)
         IN IF r.err THEN Err(UndoRows(d1, r.db)) ELSE r

(***************************************************************************)
(* CsvToDatabaseView.form_post                                             *)
(***************************************************************************)
\* conn.execute(...) of views.py lines 343-344, and of lines 345-354 when
\* they are executed, in the order of the source.
Plan(withBlock) ==
    <<"create_sequence", "add_id_on_table">> \o
    (IF withBlock
     THEN <<"create_before_insert_trigger_table", "create_after_insert_trigger_table",
            "create_function_get_delimiter_count", "create_function_split_by_delimiter",
            "create_diaglist_table", "create_proclist_table",
            "create_procedure_insert_diaglist", "create_procedure_insert_proclist",
            "create_trigger_after_insert_diaglist", "create_trigger_after_insert_proclist">>
     ELSE <<>>)

\* conn.execute(dbhelper.<stmt>(csv_table))
Execute(d, stmt, t) ==
    CASE stmt = "create_sequence"                      -> create_sequence(d)
      [] stmt = "add_id_on_table"                      -> add_id_on_table(d, t)
      [] stmt = "create_sequence_table"                -> create_sequence_table(d, t)
      [] stmt = "create_before_insert_trigger_table"   -> create_before_insert_trigger_table(d, t)
      [] stmt = "create_after_insert_trigger_table"    -> create_after_insert_trigger_table(d, t)
      [] stmt = "create_function_get_delimiter_count"  -> create_function_get_delimiter_count(d, t)
      [] stmt = "create_function_split_by_delimiter"   -> create_function_split_by_delimiter(d, t)
      [] stmt = "create_diaglist_table"                -> create_diaglist_table(d, t)
      [] stmt = "create_proclist_table"                -> create_proclist_table(d, t)
      [] stmt = "create_procedure_insert_diaglist"     -> create_procedure_insert_diaglist(d, t)
      [] stmt = "create_procedure_insert_proclist"     -> create_procedure_insert_proclist(d, t)
      [] stmt = "create_trigger_after_insert_diaglist" -> create_trigger_after_insert_diaglist(d, t)
      [] stmt = "create_trigger_after_insert_proclist" -> create_trigger_after_insert_proclist(d, t)

\* The objects of the database, each as <<kind, name, table>>.
Objects(d) ==
    {<<"sequence", "eklaim_sequences", "">> : x \in {1} \cap (IF d.seq.exists THEN {1} ELSE {})}
    \cup {<<"table", "", t>> : t \in {x \in Tables : d.tab[x].exists}}
    \cup {<<"column", "id", t>> : t \in {x \in Tables : d.tab[x].exists /\ d.tab[x].hasId}}
    \cup {<<"table", "sequence_id", t>> : t \in {x \in Tables : d.shadow[x].exists}}
    \cup {<<"table", kt[1], kt[2]>> : kt \in {x \in ListKinds \X Tables : d.child[x[1]][x[2]].exists}}
    \cup {<<"function", f[1], f[2]>> : f \in d.func}
    \cup {<<"procedure", q[1], q[2]>> : q \in d.proc}
    \cup {<<"trigger", g.name[1], g.name[2]>> : g \in d.trig}

\* The objects the text of a statement names, other than the one it creates:
\* the table of ON / ALTER TABLE, the NEW columns, and what its body uses.
References(stmt, t) ==
    CASE stmt = "create_sequence"                      -> {}
      [] stmt = "add_id_on_table"                      ->
             {<<"table", "", t>>, <<"sequence", "eklaim_sequences", "">>}
      [] stmt = "create_sequence_table"                -> {}
      [] stmt = "create_before_insert_trigger_table"   ->
             {<<"table", "", t>>, <<"column", "id", t>>, <<"table", "sequence_id", t>>}
      [] stmt = "create_after_insert_trigger_table"    ->
             {<<"table", "", t>>, <<"table", "sequence_id", t>>}
      [] stmt = "create_function_get_delimiter_count"  -> {}
      [] stmt = "create_function_split_by_delimiter"   -> {}
      [] stmt = "create_diaglist_table"                -> {}
      [] stmt = "create_proclist_table"                -> {}
      [] stmt = "create_procedure_insert_diaglist"     ->
             {<<"function", "get_delimiter_count", t>>, <<"function", "split_by_delimiter", t>>,
              <<"table", "diaglist", t>>}
      [] stmt = "create_procedure_insert_proclist"     ->
             {<<"function", "get_delimiter_count", t>>, <<"function", "split_by_delimiter", t>>,
              <<"table", "proclist", t>>}
      [] stmt = "create_trigger_after_insert_diaglist" ->
             {<<"table", "", t>>, <<"column", "id", t>>, <<"procedure", "diaglist", t>>}
      [] stmt = "create_trigger_after_insert_proclist" ->
             {<<"table", "", t>>, <<"column", "id", t>>, <<"procedure", "proclist", t>>}

\* The place of a statement in the plan (0: not in it).
Position(stmt, withBlock) ==
    LET at == {n \in 1..Len(Plan(withBlock)) : Plan(withBlock)[n] = stmt}
    IN IF at = {} THEN 0 ELSE CHOOSE n \in at : TRUE

NoDf == [columns |-> {}, rows |-> <<>>]

\* df.head(n)
head(df, n) == [df EXCEPT !.rows = SubSeq(@, 1, IF n < Len(@) THEN n ELSE Len(@))]

\* What is remembered of a run of form_post: its arguments, and
\*   made     - the table did not exist when the run began
\*   retry    - the run before failed, and this run has its arguments
\*   leftover - retry, and the failed run had created the table
\*   applied0 - the whole plan had been applied to the table before
\*   same     - the schema after the plan is the schema before it
\*   kept     - the schema after the failing statement is the one before it
NoRun == [outcome |-> "none", step |-> "none", injected |-> FALSE,
          t |-> CHOOSE t \in Tables : TRUE, if_exists |-> "fail", df |-> NoDf,
          made |-> FALSE, retry |-> FALSE, leftover |-> FALSE,
          applied0 |-> FALSE, same |-> TRUE, kept |-> TRUE]

IdleUpload ==
    [pc |-> "idle", n |-> 0, run |-> 0, faults |-> 0,
     cur |-> NoRun, last |-> NoRun, snap0 |-> Schema(EmptyDb)]

\* A variant that counts the failure and goes on with the next statement.
OnException_continue(d, r, u, st, step, injected) ==
    [db    |-> r.db,
     up    |-> [u EXCEPT !.faults = IF injected THEN @ + 1 ELSE @,
                         !.pc = IF step = "plan" /\ u.n < Len(Plan(block)) THEN "plan"
                                ELSE IF step \in {"create_empty", "plan"} THEN "bulk_load"
                                ELSE "register",
                         !.n = IF step = "plan" /\ u.n < Len(Plan(block)) THEN @ + 1 ELSE 0],
     stats |-> [st EXCEPT !.failed_csv_upload = @ + 1]]

\* except Exception: db.session.rollback() (the metadata session, not the
\* target database), flash, stats_logger.incr("failed_csv_upload"), return.
\* d is the database before the statement that raised, r its result.
OnException(d, r, u, st, step, injected) ==
    [db    |-> r.db,
     up    |-> [u EXCEPT !.pc = "idle", !.n = 0,
                         !.faults = IF injected THEN @ + 1 ELSE @,
                         !.last = [u.cur EXCEPT !.outcome = "failed", !.step = step,
                                                !.injected = injected,
                                                !.kept = (Schema(r.db) = Schema(d))]],
     stats |-> [st EXCEPT !.failed_csv_upload = @ + 1]]

(***************************************************************************)
(* Bounds and inputs                                                       *)
(***************************************************************************)
MaxRuns == 2        \* uploads

MaxFaults == 1      \* statements that fail for a reason outside the database

MaxInserts == 1     \* INSERT statements of a client, one at a time

MaxStatements == 2  \* INSERT statements of concurrent connections

Conns == {"c1", "c2"}

IfExists == {"fail", "replace", "append"}

S_A12_B34_C56 == <<"A", "1", "2", ";", "B", "3", "4", ";", "C", "5", "6">>

RowInputs ==
    {[DIAGLIST |-> Str(S_A12_B34_C56),          PROCLIST |-> NULL],
     [DIAGLIST |-> Str(<<"A", ";", ";", "B">>), PROCLIST |-> Str(<<"A">>)],
     [DIAGLIST |-> Str(<<>>),                   PROCLIST |-> Str(<<"A", ";", "B">>)]}

\* The rows a client inserts between uploads.
ClientRows == {x \in RowInputs : x.DIAGLIST.null \/ Len(x.DIAGLIST.val) # 4}

\* The uploaded files, as data frames.
Dfs ==
    {[columns |-> {"DIAGLIST", "PROCLIST"},
      rows    |-> <<[DIAGLIST |-> Str(<<"A", ";", "B">>), PROCLIST |-> Str(<<"A">>)]>>]}

\* A file that has a column named id of its own.
DfsWithId ==
    {[columns |-> {"id", "DIAGLIST", "PROCLIST"},
      rows    |-> <<[id |-> 7, DIAGLIST |-> Str(<<"A", ";", "B">>), PROCLIST |-> Str(<<"A">>)]>>]}

(***************************************************************************)
(* Actions                                                                 *)
(***************************************************************************)
FnIdle ==
    [f_string |-> NULL, f_delimiter |-> <<";">>, phase |-> "off",
     counter |-> NULL, i |-> 0, tokens |-> <<>>]

Quiescent == \A c \in Conns : ins[c].pc \in {"idle", "done", "failed"}

RECURSIVE Started(_)
Started(C) ==
    IF C = {} THEN 0
    ELSE LET c == CHOOSE x \in C : TRUE IN ins[c].n + Started(C \ {c})

\* An engine failure from outside the model (connection lost, timeout,
\* permission): the statement raises and changes nothing.
Injections == IF up.faults < MaxFaults THEN {FALSE, TRUE} ELSE {FALSE}

Raise(r, step, injected) ==
    LET x == OnException(db, r, up, stats, step, injected) IN
    /\ db' = x.db
    /\ up' = x.up
    /\ stats' = x.stats

\* form_post is entered with a table name, an if_exists mode and a file.
UpStart(t, mode, df) ==
    /\ up.pc = "idle"
    /\ up.run < MaxRuns
    /\ Quiescent
    /\ LET retry == /\ up.last.outcome = "failed"
                    /\ up.last.t = t /\ up.last.if_exists = mode /\ up.last.df = df
       IN up' = [up EXCEPT !.pc = "create_empty", !.run = @ + 1,
                           !.cur = [NoRun EXCEPT
                                       !.t = t, !.if_exists = mode, !.df = df,
                                       !.made = ~db.tab[t].exists,
                                       !.retry = retry,
                                       !.leftover = /\ retry
                                                    /\ up.last.made
                                                    /\ up.last.step # "create_empty"]]
    /\ UNCHANGED <<fn, db, ins, block, stats>>

\* df_to_sql(database, csv_table, df.head(0), if_exists)
UpCreateEmpty ==
    /\ up.pc = "create_empty"
    /\ \E injected \in Injections :
          LET r == IF injected THEN Err(db)
                   ELSE df_to_sql(db, up.cur.t, head(up.cur.df, 0), up.cur.if_exists)
          IN IF r.err THEN Raise(r, "create_empty", injected)
             ELSE /\ db' = r.db
                  /\ up' = [up EXCEPT !.pc = "plan", !.n = 1,
                                      !.cur.applied0 = r.db.applied[up.cur.t],
                                      !.snap0 = Schema(r.db)]
                  /\ UNCHANGED stats
    /\ UNCHANGED <<fn, ins, block>>

\* with database.get_sqla_engine().connect() as conn: conn.execute(...)
UpExecute ==
    /\ up.pc = "plan"
    /\ \E injected \in Injections :
          LET stmt == Plan(block)[up.n]
              r    == IF injected THEN Err(db) ELSE Execute(db, stmt, up.cur.t)
          IN IF r.err THEN Raise(r, "plan", injected)
             ELSE IF up.n < Len(Plan(block))
             THEN /\ db' = r.db
                  /\ up' = [up EXCEPT !.n = @ + 1]
                  /\ UNCHANGED stats
             ELSE /\ db' = [r.db EXCEPT !.applied[up.cur.t] = TRUE]
                  /\ up' = [up EXCEPT !.pc = "bulk_load", !.n = 0,
                                      !.cur.same = (Schema(r.db) = up.snap0),
                                      !.snap0 = Schema(EmptyDb)]
                  /\ UNCHANGED stats
    /\ UNCHANGED <<fn, ins, block>>

\* df_to_sql(database, csv_table, df, if_exists)
UpBulkLoad ==
    /\ up.pc = "bulk_load"
    /\ \E injected \in Injections :
          LET r == IF injected THEN Err(db)
                   ELSE df_to_sql(db, up.cur.t, up.cur.df, up.cur.if_exists)
          IN IF r.err THEN Raise(r, "bulk_load", injected)
             ELSE /\ db' = r.db
                  /\ up' = [up EXCEPT !.pc = "register"]
                  /\ UNCHANGED stats
    /\ UNCHANGED <<fn, ins, block>>

\* The SqlaTable is registered and the metadata session committed; then
\* stats_logger.incr("successful_csv_upload").
UpRegister ==
    /\ up.pc = "register"
    /\ \E injected \in Injections :
          IF injected THEN Raise(Ok(db), "register", injected)
          ELSE /\ up' = [up EXCEPT !.pc = "idle", !.last = [up.cur EXCEPT !.outcome = "ok"]]
               /\ stats' = [stats EXCEPT !.successful_csv_upload = @ + 1]
               /\ UNCHANGED db
    /\ UNCHANGED <<fn, ins, block>>

\* A client executes dbhelper.create_sequence_table(t); form_post never does.
RunCreateSequenceTable(t) ==
    /\ up.pc = "idle"
    /\ Quiescent
    /\ db' = create_sequence_table(db, t).db
    /\ UNCHANGED <<fn, up, ins, block, stats>>

\* A client connection executes INSERT INTO t (DIAGLIST, PROCLIST) VALUES
\* (...) with no other connection at work.
Insert(c, t, vals) ==
    /\ up.pc = "idle"
    /\ Quiescent
    /\ Started(Conns) < MaxInserts
    /\ LET r == RunInsert(db, StartInsert(ins[c], t, vals)) IN
       /\ db' = r.db
       /\ ins' = [ins EXCEPT ![c] = [r.c EXCEPT !.n = @ + 1]]
    /\ UNCHANGED <<fn, up, block, stats>>

\* A client connection starts INSERT INTO t (DIAGLIST, PROCLIST) VALUES (...)
\* and runs it trigger by trigger, other connections in between.
InsStart(c, t, vals) ==
    /\ ins[c].pc \in {"idle", "done", "failed"}
    /\ Started(Conns) < MaxStatements
    /\ ins' = [ins EXCEPT ![c] = [StartInsert(@, t, vals) EXCEPT !.n = @ + 1]]
    /\ UNCHANGED <<fn, db, up, block, stats>>

InsStep(c) ==
    /\ LET r == Step(db, ins[c]) IN
       /\ db' = r.db
       /\ ins' = [ins EXCEPT ![c] = r.c]
    /\ UNCHANGED <<fn, up, block, stats>>

InsDefault(c) ==
    /\ ins[c].pc = "default"
    /\ InsStep(c)

InsGetIdInsert(c) ==
    /\ ins[c].pc = "get_id_insert"
    /\ InsStep(c)

InsGetIdSet(c) ==
    /\ ins[c].pc = "get_id_set"
    /\ InsStep(c)

InsRow(c) ==
    /\ ins[c].pc = "row"
    /\ InsStep(c)

InsRemoveId(c) ==
    /\ ins[c].pc = "remove_id"
    /\ InsStep(c)

InsAfterInsertDiaglist(c) ==
    /\ ins[c].pc = "after_insert_diaglist"
    /\ InsStep(c)

InsAfterInsertProclist(c) ==
    /\ ins[c].pc = "after_insert_proclist"
    /\ InsStep(c)

Init ==
    /\ fn = FnIdle
    /\ db = EmptyDb
    /\ up = IdleUpload
    /\ ins = [c \in Conns |-> IdleConn]
    /\ block \in BOOLEAN
    /\ stats = [failed_csv_upload |-> 0, successful_csv_upload |-> 0]

Next ==
    \/ \E t \in OneTable, mode \in IfExists, df \in Dfs : UpStart(t, mode, df)
    \/ UpCreateEmpty
    \/ UpExecute
    \/ UpBulkLoad
    \/ UpRegister
    \/ \E t \in OneTable : RunCreateSequenceTable(t)
    \/ \E t \in OneTable, vals \in ClientRows : Insert("c1", t, vals)

Spec == Init /\ [][Next]_vars

(***************************************************************************)
(* Uploads to two tables, and INSERTs into them.                           *)
(***************************************************************************)
NextTwoTables ==
    \/ \E t \in Tables, df \in Dfs : UpStart(t, "append", df)
    \/ UpCreateEmpty
    \/ UpExecute
    \/ UpBulkLoad
    \/ UpRegister
    \/ \E t \in Tables, vals \in ClientRows : Insert("c1", t, vals)

SpecTwoTables == Init /\ [][NextTwoTables]_vars

(***************************************************************************)
(* Uploads of a file that has a column named id.                           *)
(***************************************************************************)
NextFileId ==
    \/ \E t \in OneTable, mode \in IfExists, df \in DfsWithId : UpStart(t, mode, df)
    \/ UpCreateEmpty
    \/ UpExecute
    \/ UpBulkLoad
    \/ UpRegister
    \/ \E t \in OneTable : RunCreateSequenceTable(t)
    \/ \E t \in OneTable, vals \in ClientRows : Insert("c1", t, vals)

SpecFileId == Init /\ [][NextFileId]_vars

(***************************************************************************)
(* Concurrent INSERT statements on a table the plan has been applied to.   *)
(* The initial database is one Spec reaches: by create_sequence_table and   *)
(* one upload with if_exists = "append", or by the same after a failed     *)
(* upload and a client's INSERT.                                           *)
(***************************************************************************)
RECURSIVE ExecuteAll(_, _, _)
ExecuteAll(d, stmts, t) ==
    IF stmts = <<>> THEN d
    ELSE ExecuteAll(Execute(d, Head(stmts), t).db, Tail(stmts), t)

Uploaded(d, t, df, withBlock) ==
    LET d1 == df_to_sql(d, t, head(df, 0), "append").db
        d2 == [ExecuteAll(d1, Plan(withBlock), t) EXCEPT !.applied[t] = TRUE]
    IN df_to_sql(d2, t, df, "append").db

(***************************************************************************)
(* Uploads and INSERTs after a first upload that has executed the whole    *)
(* plan and failed in the bulk load, sequence_id_t not being there: the    *)
(* sequence has given out its first value.                                 *)
(***************************************************************************)
InitAfterFailure ==
    /\ fn = FnIdle
    /\ up = IdleUpload
    /\ ins = [c \in Conns |-> IdleConn]
    /\ block = TRUE
    /\ stats = [failed_csv_upload |-> 1, successful_csv_upload |-> 0]
    /\ \E t \in OneTable, df \in Dfs :
          \E d1 \in {df_to_sql(EmptyDb, t, head(df, 0), "append").db} :
             \E d2 \in {[ExecuteAll(d1, Plan(TRUE), t) EXCEPT !.applied[t] = TRUE]} :
                db = df_to_sql(d2, t, df, "append").db

SpecAfterFailure == InitAfterFailure /\ [][Next]_vars

\* The table as a first upload that failed after add_id_on_table left it,
\* one row inserted by a client, then create_sequence_table and a second
\* upload: the row was there before the triggers were.
UploadedOverRow(t, df, vals) ==
    LET d1 == df_to_sql(EmptyDb, t, head(df, 0), "append").db
        d2 == ExecuteAll(d1, Plan(FALSE), t)
        d3 == RunInsert(d2, StartInsert(IdleConn, t, vals)).db
    IN Uploaded(create_sequence_table(d3, t).db, t, df, TRUE)

InitIns ==
    /\ fn = FnIdle
    /\ up = IdleUpload
    /\ ins = [c \in Conns |-> IdleConn]
    /\ block = TRUE
    /\ stats = [failed_csv_upload |-> 0, successful_csv_upload |-> 0]
    /\ \E t \in OneTable, df \in Dfs :
          \/ db = Uploaded(create_sequence_table(EmptyDb, t).db, t, df, TRUE)
          \/ \E vals \in ClientRows : db = UploadedOverRow(t, df, vals)

NextIns ==
    \/ \E c \in Conns, t \in OneTable, vals \in RowInputs : InsStart(c, t, vals)
    \/ \E c \in Conns : InsDefault(c)
    \/ \E c \in Conns : InsGetIdInsert(c)
    \/ \E c \in Conns : InsGetIdSet(c)
    \/ \E c \in Conns : InsRow(c)
    \/ \E c \in Conns : InsRemoveId(c)
    \/ \E c \in Conns : InsAfterInsertDiaglist(c)
    \/ \E c \in Conns : InsAfterInsertProclist(c)

SpecIns == InitIns /\ [][NextIns]_vars

(***************************************************************************)
(* Properties                                                              *)
(***************************************************************************)
\* The values of the child rows of kind k that refer to parent id, in the
\* order of the child table.
ChildKodes(d, k, t, id) ==
    LET Refers(r) == r.id_eklaim = id
        sel == SelectSeq(d.child[k][t].rows, Refers)
    IN [n \in 1..Len(sel) |-> sel[n].kode]

ChildRows(d) == [k \in ListKinds |-> [t \in Tables |-> d.child[k][t].rows]]

\* The INSERT statement that put row r into t has not finished yet.
InFlight(t, r) ==
    \E c \in Conns : /\ ins[c].pc \notin {"idle", "done", "failed"}
                     /\ ins[c].t = t
                     /\ ins[c].new.rid = r.rid

\* The parent rows of t whose INSERT statement has finished.
Inserted(t) ==
    {db.tab[t].rows[n] : n \in {m \in 1..Len(db.tab[t].rows) : ~InFlight(t, db.tab[t].rows[m])}}

StrTokens(s) == LET toks == Tokens(s, <<";">>) IN [n \in 1..Len(toks) |-> Str(toks[n])]

\* C1: the plan executed again on a table it has been applied to raises no
\* error and leaves the schema as it was.
C1_ApplyTwiceSame ==
    /\ up.cur.applied0 => up.cur.same
    /\ (up.last.outcome = "failed" /\ up.last.step = "plan" /\ ~up.last.injected)
       => ~up.last.applied0

C1_Witness == up.pc = "bulk_load" /\ up.cur.applied0 /\ up.run = 2

\* C2: a parent row inserted with the trigger of a list kind installed, and
\* a non-null, non-empty list value, has one child row per token, in token
\* order, each with the parent row's id.
C2_OneChildPerToken ==
    \A t \in Tables, k \in ListKinds : \A r \in Inserted(t) :
        LET v == ListColumn(k, r) IN
        (k \in r.norm /\ ~v.null /\ v.val # <<>>)
        => /\ ChildKodes(db, k, t, r.id) = StrTokens(v.val)
           /\ v.val = S_A12_B34_C56
              => ChildKodes(db, k, t, r.id) =
                     <<Str(<<"A", "1", "2">>), Str(<<"B", "3", "4">>), Str(<<"C", "5", "6">>)>>

C2_Witness ==
    \E c \in Conns : /\ ins[c].pc = "done"
                     /\ ins[c].new.DIAGLIST = Str(S_A12_B34_C56)
                     /\ "diaglist" \in ins[c].new.norm
                     /\ Cardinality(ins[c].added["diaglist"]) = 3

\* C3: a parent row inserted with an empty or null list value has no child
\* row.
C3_EmptyOrNullNoChild ==
    \A t \in Tables, k \in ListKinds : \A r \in Inserted(t) :
        LET v == ListColumn(k, r) IN
        (k \in r.norm /\ (v.null \/ v.val = <<>>))
        => ChildKodes(db, k, t, r.id) = <<>>

\* C4: "A;;B" gives the three child rows "A", "", "B" in that order.
C4_ConsecutiveDelimiters ==
    \A t \in Tables, k \in ListKinds : \A r \in Inserted(t) :
        (k \in r.norm /\ ListColumn(k, r) = Str(<<"A", ";", ";", "B">>))
        => ChildKodes(db, k, t, r.id) = <<Str(<<"A">>), Str(<<>>), Str(<<"B">>)>>

C4_Witness ==
    \E c \in Conns : /\ ins[c].pc = "done"
                     /\ ins[c].new.DIAGLIST = Str(<<"A", ";", ";", "B">>)
                     /\ "diaglist" \in ins[c].new.norm

\* C7: the get_id trigger never assigns an id twice, whatever the order of
\* the trigger steps of concurrent inserts, and no two rows of a table
\* have the same id.
C7_DistinctIds ==
    \A t \in Tables :
        /\ \A m, n \in 1..Len(db.idlog[t]) : m # n => db.idlog[t][m] # db.idlog[t][n]
        /\ \A m, n \in 1..Len(db.tab[t].rows) :
              (m # n /\ db.tab[t].hasId) => db.tab[t].rows[m].id # db.tab[t].rows[n].id

C7_Witness ==
    /\ ins["c1"].pc = "row" /\ ins["c2"].pc = "row"
    /\ ins["c1"].t = ins["c2"].t
    /\ ins["c1"].own > ins["c2"].own /\ ins["c2"].own > 0

\* C8: a row that was in the table before the trigger of a list kind was
\* installed has no child row of that kind, and only INSERTs (of a client or
\* of the bulk load) add child rows: applying the plan adds none.
C8_NoRetroactiveRows ==
    [][/\ \A t \in Tables, k \in ListKinds :
             \A n \in 1..Len(db'.tab[t].rows) :
                LET r == db'.tab[t].rows[n] IN
                (k \notin r.norm /\ db'.tab[t].hasId) => ChildKodes(db', k, t, r.id) = <<>>
       /\ (up.pc # "bulk_load" /\ ins' = ins) => ChildRows(db') = ChildRows(db)]_vars

C8_Witness ==
    \E t \in Tables : \E n \in 1..Len(db.tab[t].rows) :
        /\ "diaglist" \notin db.tab[t].rows[n].norm
        /\ db.tab[t].hasId
        /\ HasTrigger(db, "after_insert_diaglist", t)
        /\ db.applied[t]

\* C9: a retry of a failed run does not fail because of what the failed
\* run left behind: it does not fail on the table the failed run created.
C9_RetrySafe ==
    (up.pc = "idle" /\ up.last.retry /\ up.last.leftover /\ ~up.last.injected)
    => ~(up.last.outcome = "failed" /\ up.last.step = "create_empty")

\* C10: a failing statement ends the run (no later statement is executed),
\* the failure is counted once, and the schema stays as it was before the
\* failing statement.
C10_FailureAborts ==
    /\ stats.failed_csv_upload + stats.successful_csv_upload
          = up.run - (IF up.pc = "idle" THEN 0 ELSE 1)
    /\ (up.last.outcome = "failed" /\ up.last.step = "plan") => up.last.kept

C10_Witness ==
    /\ up.pc = "idle"
    /\ up.last.outcome = "failed" /\ up.last.step = "plan"
    /\ db.tab[up.last.t].hasId
    /\ stats.failed_csv_upload = 1

\* C11: the statement a run is about to execute names only objects that
\* exist by then, and the plan has the id assignment first, then each child
\* table before the helper functions, these before the procedures, and the
\* procedures before the normalisation triggers.
C11_OnlyEarlierObjects ==
    /\ up.pc = "plan" => References(Plan(block)[up.n], up.cur.t) \subseteq Objects(db)
    /\ block =>
          /\ Position("add_id_on_table", block) < Position("create_diaglist_table", block)
          /\ \A k \in {"create_diaglist_table", "create_proclist_table"},
                f \in {"create_function_get_delimiter_count", "create_function_split_by_delimiter"},
                q \in {"create_procedure_insert_diaglist", "create_procedure_insert_proclist"},
                g \in {"create_trigger_after_insert_diaglist", "create_trigger_after_insert_proclist"} :
                /\ Position(k, block) < Position(f, block)
                /\ Position(f, block) < Position(q, block)
                /\ Position(q, block) < Position(g, block)

\* C12: no two triggers have the same table, timing and purpose, also
\* after a trigger statement is executed on a table that has its trigger.
C12_OneTriggerPerPurpose ==
    \A g, h \in db.trig :
        (g.tbl = h.tbl /\ g.timing = h.timing /\ g.purpose = h.purpose) => g = h

C12_Witness ==
    /\ block /\ up.pc = "plan" /\ up.n = 4 /\ up.cur.applied0
    /\ HasTrigger(db, "get_id", up.cur.t)
    /\ Cardinality(db.trig) = 4

\* C14: add_id_on_table executed on a table that has a column named id
\* raises nothing, changes neither the table nor the sequence, and the run
\* goes on with the next statement.
C14_ExistingIdSkipped ==
    [][(/\ up.pc = "plan" /\ Plan(block)[up.n] = "add_id_on_table"
        /\ db.tab[up.cur.t].hasId
        /\ up' # up /\ up'.faults = up.faults)
       => (/\ db'.tab = db.tab /\ db'.seq = db.seq
           /\ up'.pc \in {"plan", "bulk_load"}
           /\ up'.pc = "plan" => up'.n = up.n + 1)]_vars

C14_Witness ==
    /\ up.pc = "bulk_load"
    /\ db.tab[up.cur.t].fileId
    /\ db.tab[up.cur.t].hasId
    /\ up.run = 1

\* C15: every step leaves the child rows that are there as they are, in
\* their order, and adds child rows of a kind only by an INSERT into a
\* parent table that has the after-insert trigger of that kind.
C15_ChildAppendOnly ==
    [][\A k \in ListKinds, t \in Tables :
          LET old == db.child[k][t].rows
              new == db'.child[k][t].rows
          IN /\ Len(old) <= Len(new)
             /\ SubSeq(new, 1, Len(old)) = old
             /\ Len(old) < Len(new)
                => /\ HasTrigger(db', AfterInsertName(k), t)
                   /\ up.pc = "bulk_load" \/ ins' # ins
                   /\ \A n \in (Len(old) + 1)..Len(new) :
                         \E m \in 1..Len(db'.tab[t].rows) :
                            /\ db'.tab[t].rows[m].id = new[n].id_eklaim
                            /\ k \in db'.tab[t].rows[m].norm]_vars

C15_Witness ==
    /\ block /\ up.pc = "plan" /\ up.n = 8
    /\ Len(db.child["diaglist"][up.cur.t].rows) > 0
    /\ Len(db.child["proclist"][up.cur.t].rows) > 0

\* What belongs to table t: the table with its rows and ids, its shadow
\* table, child tables, triggers, functions and procedures.
Own(d, t) ==
    [tab    |-> d.tab[t],
     shadow |-> d.shadow[t],
     child  |-> [k \in ListKinds |-> d.child[k][t]],
     trig   |-> {g \in d.trig : g.tbl = t},
     func   |-> {f \in d.func : f[2] = t},
     proc   |-> {q \in d.proc : q[2] = t},
     idlog  |-> d.idlog[t]]

\* The id column of t takes its default from the sequence.
UsesSequence(d, t) == d.tab[t].exists /\ d.tab[t].hasId /\ ~d.tab[t].fileId

\* C16: a step of an upload to table A, or of an INSERT into A, leaves what
\* belongs to another table B as it is, the sequence of B's ids included.
C16_NothingShared ==
    [][\A A, B \in Tables :
          (/\ A # B
           /\ \/ up.pc # "idle" /\ up.cur.t = A
              \/ ins' # ins /\ ins'["c1"].t = A)
          => /\ Own(db', B) = Own(db, B)
             /\ UsesSequence(db, B) => db'.seq = db.seq]_vars

\* C17: the rows of a table, in the order in which their INSERTs completed,
\* have increasing ids, and no step changes the id a row has.
C17_IdsStableIncreasing ==
    [][\A t \in Tables :
          /\ UsesSequence(db', t)
             => \A m, n \in 1..Len(db'.tab[t].rows) :
                   m < n => db'.tab[t].rows[m].id < db'.tab[t].rows[n].id
          /\ \A m \in 1..Len(db.tab[t].rows), n \in 1..Len(db'.tab[t].rows) :
                (/\ db.tab[t].rows[m].rid = db'.tab[t].rows[n].rid
                 /\ db.tab[t].hasId)
                => db'.tab[t].rows[n].id = db.tab[t].rows[m].id]_vars

\* The INSERTs into t whose before-insert trigger has put its row into the
\* shadow table and whose after-insert trigger remove_id has not run yet.
BetweenTriggers(t) ==
    {c \in Conns : ins[c].t = t /\ ins[c].pc \in {"get_id_set", "row", "remove_id"}}

\* C18: the shadow table of t has as many rows as there are INSERTs into t
\* between their before-insert and their after-insert trigger, and none when
\* no INSERT is in flight.
C18_ShadowCountsInFlight ==
    \A t \in Tables :
        db.shadow[t].exists =>
            Cardinality(db.shadow[t].rows) = Cardinality(BetweenTriggers(t))

\* C19: the shadow row the remove_id trigger of an INSERT has deleted is the
\* one the get_id trigger of the same INSERT created.
C19_RemovesOwnRow ==
    \A c \in Conns : ins[c].removed # 0 => ins[c].removed = ins[c].own

\* Where the identifier assignment of t stands: 0 Unassigned, 1
\* SequenceCreated, 2 ColumnAdded, 3 Ready (both triggers of lines 345-346).
Phase(d, t) ==
    IF UsesSequence(d, t)
    THEN IF HasTrigger(d, "get_id", t) /\ HasTrigger(d, "remove_id", t) THEN 3 ELSE 2
    ELSE IF d.seq.exists THEN 1 ELSE 0

\* C20: the id column is added to t only when the sequence exists, and every
\* step of form_post leaves the identifier assignment of t where it is or
\* moves it to the next state, never back and never past a state.
C20_ForwardOnly ==
    [][\A t \in Tables :
          /\ (UsesSequence(db', t) /\ ~UsesSequence(db, t)) => db.seq.exists
          /\ Phase(db', t) \in {Phase(db, t), Phase(db, t) + 1}]_vars

\* C21: when the empty table and the id statements have succeeded, the bulk
\* load with the same if_exists mode succeeds unless a failure from outside
\* the database interrupts it, the table keeps the id column that takes its
\* default from the sequence, and every row of the table has an id.
C21_BulkLoadKeepsId ==
    [][(/\ up.pc = "bulk_load"
        /\ ~(up'.pc = "idle" /\ up'.last.injected))
       => /\ up'.pc = "register"
          /\ UsesSequence(db', up.cur.t)
          /\ \A n \in 1..Len(db'.tab[up.cur.t].rows) :
                db'.tab[up.cur.t].rows[n].id # 0]_vars

\* C22: every row of diaglist_t and proclist_t refers by id_eklaim to the id
\* of exactly one row that is in t.
C22_ChildRefersToOneParent ==
    \A k \in ListKinds, t \in Tables :
        \A m \in 1..Len(db.child[k][t].rows) :
            Cardinality({n \in 1..Len(db.tab[t].rows) :
                            /\ db.tab[t].hasId
                            /\ db.tab[t].rows[n].id = db.child[k][t].rows[m].id_eklaim}) = 1

(***************************************************************************)
(* The helper functions on their own: arguments drawn from bounded sets,   *)
(* count called once and split called for f_order = 1 .. count.            *)
(***************************************************************************)
MaxLen == 4

Chars == {"A", "B", ";", "|"}

RECURSIVE StringsOfLen(_)
StringsOfLen(n) ==
    IF n = 0 THEN {<<>>}
    ELSE {Append(s, c) : s \in StringsOfLen(n - 1), c \in Chars}

Strings == UNION {StringsOfLen(n) : n \in 0..MaxLen}

Delimiters == {<<";">>, <<"|", "|">>, <<";", "|">>}

InitFn ==
    /\ \E s \in {NULL} \cup {Str(x) : x \in Strings} :
       \E d \in Delimiters :
          fn = [f_string |-> s, f_delimiter |-> d, phase |-> "args",
                counter |-> NULL, i |-> 0, tokens |-> <<>>]
    /\ db = EmptyDb
    /\ up = IdleUpload
    /\ ins = [c \in Conns |-> IdleConn]
    /\ block = FALSE
    /\ stats = [failed_csv_upload |-> 0, successful_csv_upload |-> 0]

FnCount ==
    /\ fn.phase = "args"
    /\ fn' = [fn EXCEPT !.phase = "counted",
                        !.counter = get_delimiter_count(fn.f_string, fn.f_delimiter)]
    /\ UNCHANGED <<db, up, ins, block, stats>>

FnSplit ==
    /\ fn.phase = "counted"
    /\ ~fn.counter.null
    /\ fn.i < fn.counter.val
    /\ fn' = [fn EXCEPT !.i = fn.i + 1,
                        !.tokens = Append(fn.tokens,
                                          split_by_delimiter(fn.f_string, fn.f_delimiter, fn.i + 1))]
    /\ UNCHANGED <<db, up, ins, block, stats>>

NextFn == FnCount \/ FnSplit

SpecFn == InitFn /\ [][NextFn]_vars

FnSplitDone == fn.phase = "counted" /\ ~fn.counter.null /\ fn.i = fn.counter.val

\* C5: for a non-null, non-empty string and a delimiter that occurs in it,
\* the count helper returns 1 + the number of occurrences of the delimiter.
C5_CountIsOnePlusOccurrences ==
    (/\ fn.phase = "counted"
     /\ ~fn.f_string.null
     /\ fn.f_string.val # <<>>
     /\ Occurrences(fn.f_string.val, fn.f_delimiter) > 0)
    => (/\ ~fn.counter.null
        /\ fn.counter.val = 1 + Occurrences(fn.f_string.val, fn.f_delimiter))

\* C6: joining the tokens 1 .. count by the delimiter gives back the string.
C6_RoundTrip ==
    (FnSplitDone /\ ~fn.f_string.null)
    => Join([n \in 1..Len(fn.tokens) |-> fn.tokens[n].val], fn.f_delimiter) = fn.f_string.val

(***************************************************************************)
(* The statement texts: what the functions of dbhelper.py return.  A text  *)
(* is a sequence of pieces; the pieces of the template are whole strings,  *)
(* the characters of an interpolated name are pieces of one character.     *)
(***************************************************************************)
\* "...{}...".format(args): the n-th {} is replaced by the n-th argument.
RECURSIVE format(_, _)
format(template, args) ==
    IF template = <<>> THEN <<>>
    ELSE IF Head(template) = "{}" THEN Head(args) \o format(Tail(template), Tail(args))
    ELSE <<Head(template)>> \o format(Tail(template), args)

add_id_on_table_text(table_name) ==
    format(<<"ALTER TABLE ", "{}",
             " ADD COLUMN IF NOT EXISTS id INT NOT NULL PRIMARY KEY DEFAULT nextval('eklaim_sequences');">>,
           <<table_name>>)

create_before_insert_trigger_table_text(table_name) ==
    format(<<"DROP TRIGGER IF EXISTS get_id_", "{}", "; CREATE TRIGGER get_id_", "{}",
             " BEFORE INSERT ON ", "{}", " FOR EACH ROW BEGIN INSERT INTO sequence_id_", "{}",
             " VALUES (NULL); SET NEW.id = LAST_INSERT_ID(); END">>,
           <<table_name, table_name, table_name, table_name>>)

MaxNameLen == 3

\* The identifier quote character of the engine (the backtick), as a piece.
Backtick == "BACKTICK"

\* Characters of a name: one of the identifier grammar and three outside it.
NameChars == {"t", Backtick, ";", "-"}

SafeChars == {"t"}

RECURSIVE NamesOfLen(_)
NamesOfLen(n) ==
    IF n = 0 THEN {<<>>}
    ELSE {Append(s, c) : s \in NamesOfLen(n - 1), c \in NameChars}

Names == UNION {NamesOfLen(n) : n \in 1..MaxNameLen}

InitText ==
    /\ \E name \in Names :
          fn = [phase |-> "name", table_name |-> name, stmt |-> "none",
                text |-> <<>>, rejected |-> FALSE]
    /\ db = EmptyDb
    /\ up = IdleUpload
    /\ ins = [c \in Conns |-> IdleConn]
    /\ block = FALSE
    /\ stats = [failed_csv_upload |-> 0, successful_csv_upload |-> 0]

TextAddId ==
    /\ fn.phase = "name"
    /\ fn' = [fn EXCEPT !.phase = "text", !.stmt = "add_id_on_table",
                        !.text = add_id_on_table_text(fn.table_name)]
    /\ UNCHANGED <<db, up, ins, block, stats>>

TextBeforeInsertTrigger ==
    /\ fn.phase = "name"
    /\ fn' = [fn EXCEPT !.phase = "text", !.stmt = "create_before_insert_trigger_table",
                        !.text = create_before_insert_trigger_table_text(fn.table_name)]
    /\ UNCHANGED <<db, up, ins, block, stats>>

NextText == TextAddId \/ TextBeforeInsertTrigger

SpecText == InitText /\ [][NextText]_vars

\* No character outside the identifier grammar stands in the text outside a
\* pair of backticks, and a backtick inside a pair is doubled.
RECURSIVE WellQuoted(_, _)
WellQuoted(text, inside) ==
    IF text = <<>> THEN ~inside
    ELSE IF Head(text) = Backtick
         THEN IF inside /\ Len(text) > 1 /\ text[2] = Backtick
              THEN WellQuoted(Tail(Tail(text)), TRUE)
              ELSE WellQuoted(Tail(text), ~inside)
    ELSE IF ~inside /\ Head(text) \in NameChars \ SafeChars THEN FALSE
    ELSE WellQuoted(Tail(text), inside)

\* C13: for a name with a character outside the identifier grammar, the
\* generation is rejected or the character stands escaped in the text.
C13_NamesQuoted ==
    (/\ fn.phase = "text"
     /\ \E n \in 1..Len(fn.table_name) : fn.table_name[n] \notin SafeChars)
    => (fn.rejected \/ WellQuoted(fn.text, FALSE))

(***************************************************************************)
(* CsvToDatabaseView.form_post from its first line: the checks of the      *)
(* schema and of the table name, pd.read_csv, the pre-processing and the   *)
(* hashing of columns, and then the upload.  fn holds the form.            *)
(***************************************************************************)
\* form.selected_col.data and form.hash_str.data after split(","): NULL is
\* None, the field left empty.
ColumnLists == {NULL, Str(<<"NOCOL">>), Str(<<"NOCOL", "DIAGLIST">>)}

\* form.if_exists.data: the mode with which an upload succeeds.
FormModes == {"append"}

\* [col for col in ....split(",") if col in df.columns]
check_cols(cols, df) ==
    LET InFile(col) == col \in df.columns IN SelectSeq(cols.val, InFile)

\* The columns of dtype object: the text columns of the file.
ObjectColumns(df) == df.columns \ {"id"}

Lower(ch) ==
    CASE ch = "A" -> "a"
      [] ch = "B" -> "b"
      [] ch = "C" -> "c"
      [] OTHER    -> ch

\* stopword.lowercase_text: str.lower(text)
lowercase_text(text) == Str([n \in 1..Len(text.val) |-> Lower(text.val[n])])

\* df[col] = df[col].apply(stopword.lowercase_text) for every col of cols
ApplyLowercase(df, cols) ==
    [df EXCEPT !.rows = [n \in 1..Len(df.rows) |->
                            [col \in DOMAIN df.rows[n] |->
                                IF col \in cols THEN lowercase_text(df.rows[n][col])
                                ELSE df.rows[n][col]]]]

\* str.lower raises TypeError on a value that is not a str (an empty cell).
LowercaseRaises(df, cols) ==
    \E n \in 1..Len(df.rows), col \in cols : df.rows[n][col].null

\* Pre-processing or hashing is requested with a list of columns none of
\* which is in the file.
NoColumnFound(f) ==
    LET NoneIn(cols) == \A n \in 1..Len(cols.val) : cols.val[n] \notin f.df.columns IN
    \/ f.pre_process /\ ~f.selected_col.null /\ NoneIn(f.selected_col)
    \/ f.hash_status /\ ~f.hash_str.null /\ NoneIn(f.hash_str)

FormPhasesOver == {"off", "returned", "failed", "upload"}

\* form_post is over, or has gone on to the upload: of the form it is only
\* remembered how it ended and whether a column asked for was in the file.
FormOver(phase, found) == [phase |-> phase, found |-> found]

\* A variant that returns to the form without counting the failure.
FormRaise_uncounted(step, injected) ==
    /\ up' = [up EXCEPT !.run = @ + 1]
    /\ fn' = FormOver("failed", ~NoColumnFound(fn))
    /\ UNCHANGED <<db, ins, block, stats>>

\* The except branch, entered before the upload has touched the database.
FormRaise(step, injected) ==
    LET u == [up EXCEPT !.run = @ + 1,
                        !.cur = [NoRun EXCEPT !.t = fn.t, !.if_exists = fn.if_exists,
                                              !.df = fn.df]]
        x == OnException(db, Ok(db), u, stats, step, injected)
    IN /\ db' = x.db
       /\ up' = x.up
       /\ stats' = x.stats
       /\ fn' = FormOver("failed", ~NoColumnFound(fn))
       /\ UNCHANGED <<ins, block>>

FormPost(t, mode, df, pre_process, selected_col, hash_status, hash_str) ==
    /\ up.pc = "idle"
    /\ up.run < MaxRuns
    /\ Quiescent
    /\ fn.phase \in FormPhasesOver
    /\ fn' = [phase |-> "schema_allows", t |-> t, if_exists |-> mode, df |-> df,
              pre_process |-> pre_process, selected_col |-> selected_col,
              hash_status |-> hash_status, hash_str |-> hash_str,
              processed |-> {}, hashed |-> {}]
    /\ UNCHANGED <<db, up, ins, block, stats>>

\* if not schema_allows_csv_upload(database, csv_table.schema): flash, return
FormSchemaAllows ==
    /\ fn.phase = "schema_allows"
    /\ \E allowed \in BOOLEAN :
          fn' = IF allowed THEN [fn EXCEPT !.phase = "namespace"]
                ELSE FormOver("returned", ~NoColumnFound(fn))
    /\ UNCHANGED <<db, up, ins, block, stats>>

\* if "." in csv_table.table and csv_table.schema: flash, return
\* dot: the name typed into the form has a namespace in front of the table
\* name; schema: the schema field of the form is filled in.
FormNamespace ==
    /\ fn.phase = "namespace"
    /\ \E dot \in BOOLEAN, schema \in BOOLEAN :
          fn' = IF dot /\ schema THEN FormOver("returned", ~NoColumnFound(fn))
                ELSE [fn EXCEPT !.phase = "read_csv"]
    /\ UNCHANGED <<db, up, ins, block, stats>>

\* df = pd.concat(pd.read_csv(...))
FormReadCsv ==
    /\ fn.phase = "read_csv"
    /\ \E injected \in Injections :
          IF injected THEN FormRaise("read_csv", TRUE)
          ELSE /\ fn' = [fn EXCEPT !.phase = "pre_process"]
               /\ UNCHANGED <<db, up, ins, block, stats>>

\* if form.pre_process.data == True: the columns given, or every column of
\* dtype object when none is given, are lowercased and then passed through
\* regex_word, remove_punctuation, remove_stopword and stemming_word.
FormPreProcess ==
    /\ fn.phase = "pre_process"
    /\ IF ~fn.pre_process
       THEN /\ fn' = [fn EXCEPT !.phase = "hash"]
            /\ UNCHANGED <<db, up, ins, block, stats>>
       ELSE LET cols == IF fn.selected_col.null THEN ObjectColumns(fn.df)
                        ELSE LET cc == check_cols(fn.selected_col, fn.df)
                             IN {cc[n] : n \in 1..Len(cc)}
            IN IF ~fn.selected_col.null /\ Len(check_cols(fn.selected_col, fn.df)) = 0
               THEN FormRaise("pre_process", FALSE)
               ELSE IF LowercaseRaises(fn.df, cols)
               THEN FormRaise("pre_process", FALSE)
               ELSE /\ fn' = [fn EXCEPT !.phase = "hash",
                                        !.df = ApplyLowercase(fn.df, cols),
                                        !.processed = cols]
                    /\ UNCHANGED <<db, up, ins, block, stats>>

\* if form.hash_status.data == True: hash.hash_text on the columns given, or
\* on every column of dtype object when none is given.
FormHash ==
    /\ fn.phase = "hash"
    /\ IF ~fn.hash_status
       THEN /\ fn' = [fn EXCEPT !.phase = "ready"]
            /\ UNCHANGED <<db, up, ins, block, stats>>
       ELSE IF ~fn.hash_str.null /\ Len(check_cols(fn.hash_str, fn.df)) = 0
       THEN FormRaise("hash", FALSE)
       ELSE LET cols == IF fn.hash_str.null THEN ObjectColumns(fn.df)
                        ELSE LET cc == check_cols(fn.hash_str, fn.df)
                             IN {cc[n] : n \in 1..Len(cc)}
            IN /\ fn' = [fn EXCEPT !.phase = "ready", !.hashed = cols]
               /\ UNCHANGED <<db, up, ins, block, stats>>

\* The upload begins: the first df_to_sql is next.
FormUpload ==
    /\ fn.phase = "ready"
    /\ LET retry == /\ up.last.outcome = "failed"
                    /\ up.last.t = fn.t /\ up.last.if_exists = fn.if_exists
                    /\ up.last.df = fn.df
       IN up' = [up EXCEPT !.pc = "create_empty", !.run = @ + 1,
                           !.cur = [NoRun EXCEPT
                                       !.t = fn.t, !.if_exists = fn.if_exists, !.df = fn.df,
                                       !.made = ~db.tab[fn.t].exists,
                                       !.retry = retry,
                                       !.leftover = /\ retry
                                                    /\ up.last.made
                                                    /\ up.last.step # "create_empty"]]
    /\ fn' = FormOver("upload", ~NoColumnFound(fn))
    /\ UNCHANGED <<db, ins, block, stats>>

NextForm ==
    \/ \E t \in OneTable, mode \in FormModes, df \in Dfs,
          pre_process \in BOOLEAN, selected_col \in ColumnLists,
          hash_status \in BOOLEAN, hash_str \in ColumnLists :
          FormPost(t, mode, df, pre_process, selected_col, hash_status, hash_str)
    \/ FormSchemaAllows
    \/ FormNamespace
    \/ FormReadCsv
    \/ FormPreProcess
    \/ FormHash
    \/ FormUpload
    \/ UpCreateEmpty
    \/ UpExecute
    \/ UpBulkLoad
    \/ UpRegister

SpecForm == Init /\ [][NextForm]_vars

\* The outcome the claim describes for a step of form_post: the database as
\* it was, and when the step ends form_post, one failure counted and no
\* success.
EndsAsFailure(over) ==
    /\ db' = db
    /\ up'.pc = "idle"
    /\ fn'.phase # "ready"
    /\ IF fn'.phase \in over
       THEN stats' = [stats EXCEPT !.failed_csv_upload = @ + 1]
       ELSE stats' = stats

\* C23 as stated: from the first line of form_post on, a form that asks for
\* columns none of which is in the file ends with the database unchanged and
\* one failure counted.
C23_NoColumnFails ==
    [][(/\ fn.phase \in {"schema_allows", "namespace", "read_csv", "pre_process", "hash"}
        /\ NoColumnFound(fn))
       => EndsAsFailure({"failed", "returned"})]_vars

\* C23, amended: the same for a form that has passed the checks of the
\* schema and of the table name, which return without counting a failure.
C23_NoColumnFailsInTry ==
    [][(/\ fn.phase \in {"read_csv", "pre_process", "hash"}
        /\ NoColumnFound(fn))
       => /\ EndsAsFailure({"failed"})
          /\ fn'.phase # "returned"]_vars

C23_Witness ==
    /\ fn.phase = "failed"
    /\ ~fn.found
    /\ up.last.step \in {"pre_process", "hash"}
    /\ stats.failed_csv_upload = 1 /\ stats.successful_csv_upload = 0
    /\ db = EmptyDb

=============================================================================
